---- MODULE Spec2Model ----
(***************************************************************************)
(* Model of the EKS target-groups binder (src/src/main.py): the scheduler  *)
(* loop, one cycle of main(), and register_instance_to_target_groups       *)
(* working against a load-balancer provider whose calls may each fail.     *)
(***************************************************************************)
EXTENDS Integers, Sequences, FiniteSets, TLC

\* ------------------------------------------------------------------ bounds
\* Longest node-configuration target group list the control plane returns.
MaxDesired == 2

\* ------------------------------------------------------------- environment
\* The provider's listing of target groups, page by page.
Pages == << <<"A", "B">>, <<"C">> >>

Groups == UNION {{Pages[k][i] : i \in DOMAIN Pages[k]} : k \in DOMAIN Pages}

\* Instance ids of the nodes the control plane knows.
InstanceIds == <<"i-1", "i-2">>

Instances == {InstanceIds[k] : k \in DOMAIN InstanceIds}

\* A dict key that is absent from a record of the control plane or of a result.
Missing == "absent"

NoArn == "none"

\* A node of the inventory at position k. The instance id is a function of
\* the position, so that two nodes never share one.
NodeRecord(k, managedBy, phase, hasInstanceId) ==
  [ name       |-> InstanceIds[k],
    instanceId |-> IF hasInstanceId THEN InstanceIds[k] ELSE Missing,
    managed_by |-> managedBy,
    phase      |-> phase ]

NodesAt(k) ==
  { NodeRecord(k, "cast.ai", "ready", TRUE),
    NodeRecord(k, "cast.ai", "ready", FALSE),
    NodeRecord(k, "cast.ai", "provisioning", TRUE),
    NodeRecord(k, "other", "ready", TRUE) }

\* The non-empty inventories ListNodes can return.
Inventories ==
  {<<a>> : a \in NodesAt(1)} \cup {<<a, b>> : a \in NodesAt(1), b \in NodesAt(2)}

\* Entries of eks.targetGroups in a node configuration: port 0 stands for a
\* port that is absent or falsy, NoArn for an arn that is absent or empty.
RawEntries ==
  {[arn |-> g, port |-> 80] : g \in Groups}
    \cup {[arn |-> NoArn, port |-> 80], [arn |-> "A", port |-> 0]}

RECURSIVE SeqsUpTo(_, _)
SeqsUpTo(S, n) ==
  IF n = 0 THEN {<<>>}
  ELSE LET shorter == SeqsUpTo(S, n - 1)
       IN  shorter \cup {Append(s, x) : s \in {t \in shorter : Len(t) = n - 1}, x \in S}

\* The answers GetNodeConfiguration can give.
RawConfigs == SeqsUpTo(RawEntries, MaxDesired)

\* The provider faults of one reconcile call: the page whose fetch raises
\* (0 for none) and the groups whose describe_target_health raises.
ListFaults == 0..Len(Pages)

DescribeFaults == SUBSET Groups

\* A cluster of one ready managed node.
OneNode == {<<NodeRecord(1, "cast.ai", "ready", TRUE)>>}

\* A quieter provider and control plane, for the runs over every inventory:
\* configurations of at most one entry over the first page, a listing that can
\* only fail after the first page, a describe that can only fail for "A".
FirstPage == {Pages[1][i] : i \in DOMAIN Pages[1]}

QuietConfigs == {<<>>} \cup {<<[arn |-> g, port |-> 80]>> : g \in FirstPage}

QuietListFaults == {0, Len(Pages)}

QuietDescribeFaults == {{}, {"A"}}

\* ------------------------------------------------------------------ state
VARIABLES
  sched,          \* the while-True loop: "running" a cycle or "sleeping"
  exit,           \* how the last cycle left main(): which return, or "raised"
  pc,             \* position inside main()
  env,            \* which of API_KEY, CLUSTER_ID and AWS_REGION are set
  fetch,          \* the last fetch_data call: its url, whether the request
                  \* failed and whether fetch_data raised
  nodes,          \* cluster_nodes of the current cycle
  idx,            \* position of the for loop over cluster_nodes
  outcome,        \* per node of the cycle, what its iteration did
  member,         \* provider state: the target groups each instance is in
  hist,           \* per instance, the previous finished reconcile call
  target_groups,  \* desired list of the reconcile call being reported
  before,         \* membership of the instance when that call started
  results,        \* the dict the call returned
  calls           \* provider calls the call issued, in order

vars == <<sched, exit, pc, env, fetch, nodes, idx, outcome, member, hist,
          target_groups, before, results, calls>>

EmptyResults ==
  [registered |-> <<>>, already_registered |-> <<>>, deregistered |-> <<>>,
   failed |-> <<>>]

NoHist == [ok |-> FALSE, desired |-> <<>>]

\* ---------------------------------------------------------------- helpers
InSeq(x, s) == \E i \in DOMAIN s : s[i] = x

Elems(s) == {s[i] : i \in DOMAIN s}

Arns(tgs) == {tgs[i].arn : i \in DOMAIN tgs}

\* get_target_groups_for_node: entries without an arn or a port are dropped.
KeepEntry(tg) == tg.arn # NoArn /\ tg.port # 0

get_target_groups_for_node(raw) == SelectSeq(raw, KeepEntry)

\* The environments of the process: each variable is set or not.
Environments == [api_key : BOOLEAN, cluster_id : BOOLEAN, aws_region : BOOLEAN]

\* main(): all([api_key, cluster_id, aws_region]).
AllSetButRegion(e) == e.api_key /\ e.cluster_id

AllSet(e) == e.api_key /\ e.cluster_id /\ e.aws_region

\* The answers of requests.get and raise_for_status: the request fails with a
\* RequestException, or it succeeds with a JSON body.
RequestFailed == [failed |-> TRUE, body |-> <<>>]

Responses(bodies) ==
  {RequestFailed} \cup {[failed |-> FALSE, body |-> b] : b \in bodies}

\* fetch_data: the body of a successful request; a failed request is logged
\* and raised again. data = <<>> stands for every falsy value, None included.
fetch_dataReturnsNone(response) == [raised |-> FALSE, data |-> response.body]

fetch_data(response) == [raised |-> response.failed, data |-> response.body]

\* get_cluster_nodes after fetch_data returned: the items, or [].
get_cluster_nodes(data) == data

NoFetch == [url |-> "none", failed |-> FALSE, raised |-> FALSE]

Fetched(url, response) ==
  [url |-> url, failed |-> response.failed, raised |-> fetch_data(response).raised]

\* main(): the test that decides whether a node is processed.
EligibleManagedOnly(node) == node.managed_by = "cast.ai"

Eligible(node) == node.managed_by = "cast.ai" /\ node.phase = "ready"

\* ------------------------------------- register_instance_to_target_groups
Call(op, arn, ok) == [op |-> op, arn |-> arn, ok |-> ok]

Failure(arn, operation) == [arn |-> arn, operation |-> operation]

\* A describe_target_health answer that lists the instance: with an empty
\* desired list the group is reported as deregistered (the deregister call
\* itself is commented out), otherwise as already registered.
RecordMemberNothingWhenEmpty(acc, tg, emptyDesired) ==
  IF emptyDesired THEN acc
  ELSE [acc EXCEPT !.results.already_registered = Append(@, tg)]

RecordMember(acc, tg, emptyDesired) ==
  IF emptyDesired
  THEN [acc EXCEPT !.results.deregistered = Append(@, tg)]
  ELSE [acc EXCEPT !.results.already_registered = Append(@, tg)]

\* DescribeGroup without the test for the instance id in the answer.
DescribeGroupAnyTarget(acc, tg, descFail, emptyDesired) ==
  LET logged ==
        [acc EXCEPT !.calls =
           Append(@, Call("describe_target_health", tg, tg \notin descFail))]
  IN  IF tg \in descFail
      THEN [logged EXCEPT !.results.failed =
              Append(@, Failure(tg, IF emptyDesired THEN "deregister"
                                    ELSE "describe_health"))]
      ELSE RecordMember(logged, tg, emptyDesired)

\* One target group of a page: describe_target_health and its except clause.
DescribeGroup(acc, tg, descFail, emptyDesired) ==
  LET logged ==
        [acc EXCEPT !.calls =
           Append(@, Call("describe_target_health", tg, tg \notin descFail))]
  IN  IF tg \in descFail
      THEN [logged EXCEPT !.results.failed =
              Append(@, Failure(tg, IF emptyDesired THEN "deregister"
                                    ELSE "describe_health"))]
      ELSE IF tg \in acc.mem THEN RecordMember(logged, tg, emptyDesired)
           ELSE logged

RECURSIVE ScanGroups(_, _, _, _, _)
ScanGroups(acc, page, i, descFail, emptyDesired) ==
  IF i > Len(page) THEN acc
  ELSE ScanGroups(DescribeGroup(acc, page[i], descFail, emptyDesired),
                  page, i + 1, descFail, emptyDesired)

\* ScanPages over the first page of the listing only.
ScanPagesFirstPageOnly(acc, k, listFail, descFail, emptyDesired) ==
  IF k > 1 THEN acc
  ELSE IF k = listFail
       THEN [acc EXCEPT
               !.calls = Append(@, Call("describe_target_groups", NoArn, FALSE)),
               !.aborted = TRUE,
               !.results.failed =
                 Append(@, Failure(NoArn, IF emptyDesired THEN "deregister"
                                          ELSE "describe_target_groups"))]
       ELSE ScanGroups(
              [acc EXCEPT !.calls =
                 Append(@, Call("describe_target_groups", NoArn, TRUE))],
              Pages[k], 1, descFail, emptyDesired)

\* ScanPages without the return in the except clause of the listing.
RECURSIVE ScanPagesNoReturn(_, _, _, _, _)
ScanPagesNoReturn(acc, k, listFail, descFail, emptyDesired) ==
  IF k > Len(Pages) THEN acc
  ELSE IF k = listFail
       THEN [acc EXCEPT
               !.calls = Append(@, Call("describe_target_groups", NoArn, FALSE)),
               !.results.failed =
                 Append(@, Failure(NoArn, IF emptyDesired THEN "deregister"
                                          ELSE "describe_target_groups"))]
       ELSE ScanPagesNoReturn(
              ScanGroups(
                [acc EXCEPT !.calls =
                   Append(@, Call("describe_target_groups", NoArn, TRUE))],
                Pages[k], 1, descFail, emptyDesired),
              k + 1, listFail, descFail, emptyDesired)

\* The paginator loop. listFail = k > 0 makes the fetch of page k raise, which
\* leaves the loop through the outer except clause; 0 lets every page arrive.
RECURSIVE ScanPages(_, _, _, _, _)
ScanPages(acc, k, listFail, descFail, emptyDesired) ==
  IF k > Len(Pages) THEN acc
  ELSE IF k = listFail
       THEN [acc EXCEPT
               !.calls = Append(@, Call("describe_target_groups", NoArn, FALSE)),
               !.aborted = TRUE,
               !.results.failed =
                 Append(@, Failure(NoArn, IF emptyDesired THEN "deregister"
                                          ELSE "describe_target_groups"))]
       ELSE ScanPages(
              ScanGroups(
                [acc EXCEPT !.calls =
                   Append(@, Call("describe_target_groups", NoArn, TRUE))],
                Pages[k], 1, descFail, emptyDesired),
              k + 1, listFail, descFail, emptyDesired)

\* DeregisterUnwanted with one try around the whole loop: the first failing
\* deregister call ends the loop.
RECURSIVE DeregisterUnwantedOneTry(_, _, _, _)
DeregisterUnwantedOneTry(acc, i, tgs, deregFail) ==
  IF i > Len(acc.results.already_registered) THEN acc
  ELSE LET tg == acc.results.already_registered[i]
       IN  IF tg \in Arns(tgs)
           THEN DeregisterUnwantedOneTry(acc, i + 1, tgs, deregFail)
           ELSE IF tg \in deregFail
                THEN [acc EXCEPT
                        !.calls = Append(@, Call("deregister_targets", tg, FALSE)),
                        !.results.failed = Append(@, Failure(tg, "deregister"))]
                ELSE DeregisterUnwantedOneTry(
                       [acc EXCEPT
                          !.calls = Append(@, Call("deregister_targets", tg, TRUE)),
                          !.results.deregistered = Append(@, tg),
                          !.mem = @ \ {tg}],
                       i + 1, tgs, deregFail)

\* The loop over results['already_registered'] that deregisters what is not
\* in the provided list.
RECURSIVE DeregisterUnwanted(_, _, _, _)
DeregisterUnwanted(acc, i, tgs, deregFail) ==
  IF i > Len(acc.results.already_registered) THEN acc
  ELSE LET tg == acc.results.already_registered[i]
           next ==
             IF tg \in Arns(tgs) THEN acc
             ELSE IF tg \in deregFail
                  THEN [acc EXCEPT
                          !.calls = Append(@, Call("deregister_targets", tg, FALSE)),
                          !.results.failed = Append(@, Failure(tg, "deregister"))]
                  ELSE [acc EXCEPT
                          !.calls = Append(@, Call("deregister_targets", tg, TRUE)),
                          !.results.deregistered = Append(@, tg),
                          !.mem = @ \ {tg}]
       IN  DeregisterUnwanted(next, i + 1, tgs, deregFail)

\* NeedsRegister with the test inverted.
NeedsRegisterInverted(arn, already) == InSeq(arn, already)

\* The test of the registration loop.
NeedsRegisterAlways(arn, already) == TRUE

NeedsRegister(arn, already) == ~InSeq(arn, already)

\* The loop over target_groups that registers what is not yet registered;
\* regFail holds the positions of target_groups whose register call raises.
RECURSIVE RegisterNew(_, _, _, _)
RegisterNew(acc, i, tgs, regFail) ==
  IF i > Len(tgs) THEN acc
  ELSE LET arn == tgs[i].arn
           next ==
             IF ~NeedsRegister(arn, acc.results.already_registered) THEN acc
             ELSE IF i \in regFail
                  THEN [acc EXCEPT
                          !.calls = Append(@, Call("register_targets", arn, FALSE)),
                          !.results.failed = Append(@, Failure(arn, "register"))]
                  ELSE [acc EXCEPT
                          !.calls = Append(@, Call("register_targets", arn, TRUE)),
                          !.results.registered = Append(@, arn),
                          !.mem = @ \cup {arn}]
       IN  RegisterNew(next, i + 1, tgs, regFail)

\* register_instance_to_target_groups with the two loops in the other order.
RegisterBeforeDeregister(tgs, mem, listFail, descFail, deregFail, regFail) ==
  LET start   == [results |-> EmptyResults, calls |-> <<>>, mem |-> mem,
                  aborted |-> FALSE]
      scanned == ScanPages(start, 1, listFail, descFail, tgs = <<>>)
  IN  IF tgs = <<>> \/ scanned.aborted THEN scanned
      ELSE DeregisterUnwanted(RegisterNew(scanned, 1, tgs, regFail),
                              1, tgs, deregFail)

\* The whole call, once the client exists: its results, the provider calls it
\* made and the membership it leaves.
register_instance_to_target_groups(tgs, mem, listFail, descFail, deregFail, regFail) ==
  LET start   == [results |-> EmptyResults, calls |-> <<>>, mem |-> mem,
                  aborted |-> FALSE]
      scanned == ScanPages(start, 1, listFail, descFail, tgs = <<>>)
  IN  IF tgs = <<>> \/ scanned.aborted THEN scanned
      ELSE RegisterNew(DeregisterUnwanted(scanned, 1, tgs, deregFail),
                       1, tgs, regFail)

AllOk(cs) == \A i \in DOMAIN cs : cs[i].ok

\* ------------------------------------------------------------ the program
\* The while-True loop after main() has left, by one of its returns or by an
\* exception that reached the except clause ("raised"): both log and sleep.
AfterCycleStopsOnRaise(how) == IF how = "raised" THEN "stopped" ELSE "sleeping"

AfterCycle(how) == "sleeping"

\* main() is left: the loop sleeps.
LeaveMain(how) ==
  /\ sched' = AfterCycle(how)
  /\ exit' = how
  /\ pc' = "idle"

InitWith(memberships) ==
  /\ sched = "running"
  /\ exit = "none"
  /\ pc = "start"
  /\ fetch = NoFetch
  /\ nodes = <<>>
  /\ idx = 1
  /\ outcome = <<>>
  /\ member \in memberships
  /\ hist = [i \in Instances |-> NoHist]
  /\ target_groups = <<>>
  /\ before = {}
  /\ results = EmptyResults
  /\ calls = <<>>

Transient == <<target_groups, before, results, calls>>

\* time.sleep(60) is over: the loop calls main() again.
Wake ==
  /\ sched = "sleeping"
  /\ sched' = "running"
  /\ exit' = "none"
  /\ pc' = "start"
  /\ nodes' = <<>>
  /\ idx' = 1
  /\ outcome' = <<>>
  /\ UNCHANGED <<env, fetch, member, hist, Transient>>

\* main(): a required environment variable is missing.
MainMissingEnv ==
  /\ sched = "running" /\ pc = "start"
  /\ ~AllSet(env)
  /\ LeaveMain("missing_env")
  /\ UNCHANGED <<env, fetch, nodes, idx, outcome, member, hist, Transient>>

\* main(): get_cluster_nodes raises (fetch_data re-raises the request error).
GetClusterNodesRaises ==
  /\ sched = "running" /\ pc = "start"
  /\ AllSet(env)
  /\ fetch_data(RequestFailed).raised
  /\ fetch' = Fetched("nodes", RequestFailed)
  /\ LeaveMain("nodes_failed")
  /\ UNCHANGED <<env, nodes, idx, outcome, member, hist, Transient>>

\* main(): fetch_data returns and the inventory has no items.
GetClusterNodesEmpty ==
  /\ sched = "running" /\ pc = "start"
  /\ AllSet(env)
  /\ \E response \in Responses({<<>>}) :
       /\ ~fetch_data(response).raised
       /\ get_cluster_nodes(fetch_data(response).data) = <<>>
       /\ fetch' = Fetched("nodes", response)
  /\ LeaveMain("no_nodes")
  /\ UNCHANGED <<env, nodes, idx, outcome, member, hist, Transient>>

\* GetClusterNodes without the return of main() on an empty inventory: the
\* for loop starts over whatever arrived.
GetClusterNodesNoEmptyCheck(inventories) ==
  /\ sched = "running" /\ pc = "start"
  /\ AllSet(env)
  /\ \E response \in Responses(inventories \cup {<<>>}) :
       LET inv == get_cluster_nodes(fetch_data(response).data)
       IN  /\ ~fetch_data(response).raised
           /\ fetch' = Fetched("nodes", response)
           /\ nodes' = inv
           /\ outcome' = [k \in DOMAIN inv |-> "pending"]
  /\ idx' = 1
  /\ pc' = "loop"
  /\ UNCHANGED <<sched, exit, env, member, hist, Transient>>

\* main(): the inventory arrives and the for loop starts.
GetClusterNodes(inventories) ==
  /\ sched = "running" /\ pc = "start"
  /\ AllSet(env)
  /\ \E response \in Responses(inventories) :
       LET inv == get_cluster_nodes(fetch_data(response).data)
       IN  /\ ~fetch_data(response).raised
           /\ inv # <<>>
           /\ fetch' = Fetched("nodes", response)
           /\ nodes' = inv
           /\ outcome' = [k \in DOMAIN inv |-> "pending"]
  /\ idx' = 1
  /\ pc' = "loop"
  /\ UNCHANGED <<sched, exit, env, member, hist, Transient>>

AtNode == sched = "running" /\ pc = "loop" /\ idx <= Len(nodes)

\* The for loop moves on to the next node.
NextNode(what) ==
  /\ outcome' = [outcome EXCEPT ![idx] = what]
  /\ idx' = idx + 1

\* The else branch: the node is not managed by cast.ai or not ready.
SkipNode ==
  /\ AtNode
  /\ ~Eligible(nodes[idx])
  /\ NextNode("skipped")
  /\ UNCHANGED <<sched, exit, pc, env, fetch, nodes, member, hist, Transient>>

\* Building node_info for an eligible node whose record has no instanceId:
\* the KeyError is raised outside every try of main() and ends the cycle in
\* the except clause of the while loop.
NodeKeyError ==
  /\ AtNode
  /\ Eligible(nodes[idx])
  /\ nodes[idx].instanceId = Missing
  /\ outcome' = [outcome EXCEPT ![idx] = "key_error"]
  /\ LeaveMain("raised")
  /\ UNCHANGED <<env, fetch, nodes, idx, member, hist, Transient>>

Processable == AtNode /\ Eligible(nodes[idx]) /\ nodes[idx].instanceId # Missing

\* get_target_groups_for_node raises what fetch_data raised: logged, continue.
GetTargetGroupsRaises ==
  /\ Processable
  /\ fetch_data(RequestFailed).raised
  /\ fetch' = Fetched("config", RequestFailed)
  /\ NextNode("config_failed")
  /\ UNCHANGED <<sched, exit, pc, env, nodes, member, hist, Transient>>

\* boto3.client raises inside register_instance_to_target_groups: the
\* exception reaches the try of main(), is logged, continue.
ClientRaises ==
  /\ Processable
  /\ \E response \in Responses({<<>>}) :
       /\ ~fetch_data(response).raised
       /\ fetch' = Fetched("config", response)
  /\ NextNode("reconcile_raised")
  /\ UNCHANGED <<sched, exit, pc, env, nodes, member, hist, Transient>>

\* The configuration arrives and register_instance_to_target_groups runs to
\* its return. The failing deregister and register calls are chosen among the
\* calls the run makes: deregFail by group, regFail by position in the list.
Reconcile(configs, listFaults, describeFaults) ==
  /\ Processable
  /\ \E response \in Responses(configs), listFail \in listFaults,
        descFail \in describeFaults :
       LET inst  == nodes[idx].instanceId
           tgs   == get_target_groups_for_node(fetch_data(response).data)
           mem   == member[inst]
           found == mem \ descFail
       IN  \E deregFail \in SUBSET (found \ Arns(tgs)),
              regFail \in SUBSET {i \in DOMAIN tgs : tgs[i].arn \notin found} :
             /\ ~fetch_data(response).raised
             /\ (listFail # 0 => deregFail = {} /\ regFail = {})
             /\ fetch' = Fetched("config", response)
             /\ LET run == register_instance_to_target_groups(
                             tgs, mem, listFail, descFail, deregFail, regFail)
                IN  /\ target_groups' = tgs
                    /\ before' = mem
                    /\ results' = run.results
                    /\ calls' = run.calls
                    /\ member' = [member EXCEPT ![inst] = run.mem]
  /\ pc' = "log"
  /\ UNCHANGED <<sched, exit, env, nodes, idx, outcome, hist>>

\* logger.info of the results; the dict is dropped and the loop moves on.
LogResult ==
  /\ sched = "running" /\ pc = "log"
  /\ hist' = [hist EXCEPT ![nodes[idx].instanceId] =
                IF AllOk(calls) THEN [ok |-> TRUE, desired |-> target_groups]
                ELSE NoHist]
  /\ NextNode("reconciled")
  /\ pc' = "loop"
  /\ target_groups' = <<>>
  /\ before' = {}
  /\ results' = EmptyResults
  /\ calls' = <<>>
  /\ UNCHANGED <<sched, exit, env, fetch, nodes, member>>

\* The for loop is exhausted: main() returns.
MainReturns ==
  /\ sched = "running" /\ pc = "loop" /\ idx > Len(nodes)
  /\ LeaveMain("done")
  /\ UNCHANGED <<env, fetch, nodes, idx, outcome, member, hist, Transient>>

\* The whole program over every inventory, against the quiet provider.
Init ==
  /\ env \in Environments
  /\ InitWith([Instances -> SUBSET FirstPage])

Next ==
  \/ Wake
  \/ MainMissingEnv
  \/ GetClusterNodesRaises
  \/ GetClusterNodesEmpty
  \/ GetClusterNodes(Inventories)
  \/ SkipNode
  \/ NodeKeyError
  \/ GetTargetGroupsRaises
  \/ ClientRaises
  \/ Reconcile(QuietConfigs, QuietListFaults, QuietDescribeFaults)
  \/ LogResult
  \/ MainReturns

Spec == Init /\ [][Next]_vars

\* The program against a cluster of one ready managed node, with every
\* configuration and every provider fault: the runs that examine single
\* calls of register_instance_to_target_groups and calls in succession.
OneNodeInit ==
  /\ env = [api_key |-> TRUE, cluster_id |-> TRUE, aws_region |-> TRUE]
  /\ InitWith({m \in [Instances -> SUBSET Groups] :
                 \A i \in Instances \ {InstanceIds[1]} : m[i] = {}})

OneNodeNext ==
  \/ Wake
  \/ GetClusterNodes(OneNode)
  \/ Reconcile(RawConfigs, ListFaults, DescribeFaults)
  \/ LogResult
  \/ MainReturns

OneNodeSpec == OneNodeInit /\ [][OneNodeNext]_vars

\* ------------------------------------------------------------ properties
\* A call of register_instance_to_target_groups has just returned: results,
\* calls, before and target_groups describe it.
Returned == pc = "log"

CallInstance == nodes[idx].instanceId

Made(op, arn, ok) ==
  \E i \in DOMAIN calls : calls[i] = Call(op, arn, ok)

Attempted(op, arn) == Made(op, arn, TRUE) \/ Made(op, arn, FALSE)

Mutated(arn) == Attempted("register_targets", arn) \/ Attempted("deregister_targets", arn)

FailureRecords(arn, operation) ==
  {i \in DOMAIN results.failed : results.failed[i] = Failure(arn, operation)}

InFailed(arn) == \E i \in DOMAIN results.failed : results.failed[i].arn = arn

BucketCount(arn) ==
  (IF InSeq(arn, results.registered) THEN 1 ELSE 0)
    + (IF InSeq(arn, results.already_registered) THEN 1 ELSE 0)
    + (IF InSeq(arn, results.deregistered) THEN 1 ELSE 0)
    + (IF InFailed(arn) THEN 1 ELSE 0)

ListingFailed == Made("describe_target_groups", NoArn, FALSE)

\* C1: when a call returns, every ARN that is desired or that the node was a
\* member of is in exactly one of registered, already_registered,
\* deregistered and failed.
C1_Completeness ==
  Returned =>
    \A arn \in Arns(target_groups) \cup before : BucketCount(arn) = 1

\* C2: with an empty desired list, an ARN is reported as deregistered only
\* after a successful deregister call for it, and when every provider call
\* succeeded the node is a member of no target group once the call returns.
C2_EmptyDesiredDeregisters ==
  (Returned /\ target_groups = <<>>) =>
    /\ \A arn \in Elems(results.deregistered) : Made("deregister_targets", arn, TRUE)
    /\ (AllOk(calls) => member[CallInstance] = {})

C4_UnreachableGroupIsolated ==
  (Returned /\ target_groups # <<>>) =>
    \A c \in Groups :
      Made("describe_target_health", c, FALSE) =>
        /\ ~InSeq(c, results.registered)
        /\ ~InSeq(c, results.already_registered)
        /\ ~InSeq(c, results.deregistered)
        /\ \A i \in DOMAIN results.failed :
             results.failed[i].arn = c => results.failed[i].operation = "describe_health"
        /\ ~Mutated(c)

\* C5: a call that follows a call for the same node with the same non-empty
\* desired list, every provider call of both succeeding, issues no register
\* and no deregister call, reports nothing registered or deregistered and
\* every desired ARN as already registered.
C5_Idempotence ==
  ( /\ Returned /\ target_groups # <<>>
    /\ hist[CallInstance].ok /\ hist[CallInstance].desired = target_groups
    /\ AllOk(calls) ) =>
    /\ \A arn \in Groups : ~Mutated(arn)
    /\ results.registered = <<>>
    /\ results.deregistered = <<>>
    /\ Arns(target_groups) \subseteq Elems(results.already_registered)

C5_Witness ==
  /\ Returned /\ Len(target_groups) = 2 /\ target_groups[1].arn # target_groups[2].arn
  /\ hist[CallInstance].ok /\ hist[CallInstance].desired = target_groups
  /\ AllOk(calls)
  /\ Len(results.already_registered) = 2

\* C6: every desired ARN that was not found registered gets its register
\* call whatever happened to the others; an ARN whose register call succeeded
\* is in registered; an ARN whose register call failed has exactly one
\* failure record with operation register and is not in registered.
C6_RegisterFailureIsolated ==
  (Returned /\ target_groups # <<>> /\ ~ListingFailed) =>
    \A arn \in Arns(target_groups) :
      /\ ~InSeq(arn, results.already_registered) => Attempted("register_targets", arn)
      /\ Made("register_targets", arn, TRUE) => InSeq(arn, results.registered)
      /\ Made("register_targets", arn, FALSE) =>
           /\ Cardinality(FailureRecords(arn, "register")) = 1
           /\ ~InSeq(arn, results.registered)

IsManagedReady(node) == node.managed_by = "cast.ai" /\ node.phase = "ready"

\* C7: when a cycle is over, every well-formed eligible node that follows a
\* node whose processing raised has been processed in that cycle.
C7_NoCrossNodeInterference ==
  sched = "sleeping" =>
    \A a \in DOMAIN nodes, b \in DOMAIN nodes :
      ( /\ a < b
        /\ outcome[a] \in {"key_error", "config_failed", "reconcile_raised"}
        /\ IsManagedReady(nodes[b]) /\ nodes[b].instanceId # Missing )
      => outcome[b] \in {"reconciled", "config_failed", "reconcile_raised"}

\* C8: a node that is not managed or not ready is never fetched a
\* configuration for and never reconciled, and no step of the cycle changes
\* the membership of its instance.
C8_IneligibleSkipped ==
  /\ [](\A k \in DOMAIN nodes :
          ~IsManagedReady(nodes[k]) =>
            /\ outcome[k] \in {"pending", "skipped"}
            /\ ~(pc = "log" /\ idx = k))
  /\ [][\A k \in DOMAIN nodes :
          (~IsManagedReady(nodes[k]) /\ nodes[k].instanceId # Missing) =>
            member'[nodes[k].instanceId] = member[nodes[k].instanceId]]_vars

C8_Witness ==
  /\ sched = "sleeping" /\ Len(nodes) = 2
  /\ ~IsManagedReady(nodes[1]) /\ outcome[1] = "skipped"
  /\ outcome[2] = "reconciled"
  /\ member[nodes[1].instanceId] # {}

\* C9: when the listing of target groups fails, the call returns nothing
\* registered, already registered or deregistered and exactly one failure
\* record, without an ARN, tagged describe_target_groups when the desired
\* list is non-empty.
C9_ListingFailureResult ==
  (Returned /\ ListingFailed) =>
    /\ results.registered = <<>>
    /\ results.already_registered = <<>>
    /\ results.deregistered = <<>>
    /\ Len(results.failed) = 1
    /\ results.failed[1].arn = NoArn
    /\ (target_groups # <<>> => results.failed[1].operation = "describe_target_groups")

\* C10: the loop is always running a cycle or sleeping; a cycle, however it
\* ends, is followed by sleeping and sleeping by a cycle, again and again.
C10_SchedulerNeverEnds ==
  /\ [](sched \in {"running", "sleeping"})
  /\ [][(sched = "running" => sched' \in {"running", "sleeping"})
          /\ (sched = "sleeping" => sched' = "running")]_vars
  /\ []<>(sched = "sleeping")
  /\ []<>(sched = "running")

C10_Witness == sched = "sleeping" /\ exit = "raised"

\* The program takes its next step whenever it has one: it is one sequential
\* thread whose calls return.
LiveSpec == Spec /\ WF_vars(Next)

\* ----------------------------------------------------- properties, part 2
CallsOf(op) == {i \in DOMAIN calls : calls[i].op = op}

MutationCalls(arn) ==
  {i \in DOMAIN calls :
     calls[i].arn = arn /\ calls[i].op \in {"register_targets", "deregister_targets"}}

\* The snapshot of the call reported the node as a member of the group.
ReportedMember(arn) == arn \in before /\ Made("describe_target_health", arn, TRUE)

C14_DeregisterBeforeRegister ==
  Returned =>
    \A i \in CallsOf("deregister_targets"), j \in CallsOf("register_targets") : i < j

C14_Witness ==
  /\ Returned
  /\ \E i \in CallsOf("deregister_targets"), j \in CallsOf("register_targets") :
       ~calls[i].ok /\ i < j
  /\ \E i \in CallsOf("deregister_targets") : calls[i].ok

\* C15: a call in which the listing of target groups fails, on any page and
\* for any desired list, issues no register and no deregister call and leaves
\* the membership as it was.
C15_NoMutationWithoutListing ==
  (Returned /\ ListingFailed) =>
    /\ CallsOf("register_targets") = {}
    /\ CallsOf("deregister_targets") = {}
    /\ member[CallInstance] = before

C15_Witness ==
  /\ Returned /\ ListingFailed /\ calls[1].ok
  /\ target_groups # <<>>
  /\ \E arn \in Arns(target_groups) : arn \notin before
  /\ \E arn \in before : arn \notin Arns(target_groups) /\ InSeq(arn, results.already_registered)

\* C17: a group the snapshot reported the node a member of gets no register
\* call; when it is also desired it is in already_registered and gets no
\* register and no deregister call.
C17_NoRedundantRegistration ==
  (Returned /\ target_groups # <<>>) =>
    \A arn \in Groups :
      ReportedMember(arn) =>
        /\ ~Attempted("register_targets", arn)
        /\ (arn \in Arns(target_groups) =>
              InSeq(arn, results.already_registered) /\ MutationCalls(arn) = {})

C17_Witness ==
  /\ Returned /\ ~ListingFailed
  /\ \E arn \in Arns(target_groups) : ReportedMember(arn)
  /\ CallsOf("register_targets") # {}

\* C18: with a non-empty desired list, a failing deregister call leaves one
\* failure record with its ARN and operation deregister, keeps the ARN out of
\* deregistered and in the membership, and every other group found registered
\* and not desired still gets its deregister call and every desired group the
\* node is not a member of still gets its register call.
C18_DeregisterFailureIsolated ==
  (Returned /\ target_groups # <<>>) =>
    \A arn \in Groups :
      Made("deregister_targets", arn, FALSE) =>
        /\ Cardinality(FailureRecords(arn, "deregister")) = 1
        /\ ~InSeq(arn, results.deregistered)
        /\ arn \in member[CallInstance]
        /\ \A other \in Groups :
             (ReportedMember(other) /\ other \notin Arns(target_groups)) =>
               Attempted("deregister_targets", other)
        /\ \A wanted \in Arns(target_groups) :
             wanted \notin before => Attempted("register_targets", wanted)

C18_Witness ==
  /\ Returned
  /\ \E i \in CallsOf("deregister_targets"), j \in CallsOf("deregister_targets") :
       i < j /\ ~calls[i].ok /\ calls[j].ok
  /\ \E j \in CallsOf("register_targets") : calls[j].ok

\* C20: in one call each ARN gets at most one register or deregister call;
\* register is called only for ARNs that are desired and that the node is not
\* a member of, deregister only for ARNs the node is a member of and that are
\* not desired.
C20_MinimalCallSet ==
  Returned =>
    \A arn \in Groups :
      /\ Cardinality(MutationCalls(arn)) <= 1
      /\ Attempted("register_targets", arn) =>
           (arn \in Arns(target_groups) /\ arn \notin before)
      /\ Attempted("deregister_targets", arn) =>
           (arn \in before /\ arn \notin Arns(target_groups))

\* C12: when the request fails, fetch_data does not raise: it returns None
\* to its caller.
C12_FetchFailureReturnsNone == fetch.failed => ~fetch.raised

EnvMissing == ~(env.api_key /\ env.cluster_id /\ env.aws_region)

\* C13: when one of the three environment variables is missing, no cycle
\* fetches anything from the control plane or calls the provider, membership
\* never changes, and the loop keeps sleeping and running cycles.
C13_MissingConfiguration ==
  /\ [](EnvMissing =>
          /\ fetch = NoFetch
          /\ nodes = <<>>
          /\ calls = <<>>
          /\ pc \in {"start", "idle"}
          /\ exit \in {"none", "missing_env"})
  /\ [][EnvMissing => member' = member]_vars
  /\ (EnvMissing => ([]<>(sched = "sleeping") /\ []<>(sched = "running")))

C13_Witness ==
  /\ sched = "sleeping" /\ exit = "missing_env"
  /\ env.api_key /\ env.cluster_id /\ ~env.aws_region

\* C16: a reconcile call never follows a failed fetch of the node's
\* configuration; the step in which the fetch fails makes no provider call,
\* changes no membership and moves the loop to the next node.
C16_FailedConfigFetchSkipsNode ==
  /\ []((pc = "log" \/ calls # <<>>) => (fetch.url = "config" /\ ~fetch.failed))
  /\ [][(fetch'.url = "config" /\ fetch'.failed /\ fetch' # fetch) =>
          /\ member' = member
          /\ calls' = <<>>
          /\ sched' = "running" /\ pc' = "loop"
          /\ idx' = idx + 1
          /\ outcome'[idx] = "config_failed"]_vars

C16_Witness ==
  /\ sched = "sleeping" /\ exit = "done"
  /\ outcome = <<"config_failed", "reconciled">>
  /\ member[nodes[1].instanceId] # {}

\* The program against the cluster of one ready managed node, where the
\* control plane and the client creation can fail as well, taking its next
\* step whenever it has one. Its configurations hold complete entries only
\* and describe_target_health can fail for "A" only; the listing can fail at
\* any page and each register and deregister call can fail.
CompleteConfigs ==
  SeqsUpTo({[arn |-> g, port |-> 80] : g \in Groups}, MaxDesired)

OneNodeLiveNext ==
  \/ Wake
  \/ GetClusterNodesRaises
  \/ GetClusterNodesEmpty
  \/ GetClusterNodes(OneNode)
  \/ GetTargetGroupsRaises
  \/ ClientRaises
  \/ Reconcile(CompleteConfigs, ListFaults, QuietDescribeFaults)
  \/ LogResult
  \/ MainReturns

OneNodeLiveSpec ==
  OneNodeInit /\ [][OneNodeLiveNext]_vars /\ WF_vars(OneNodeLiveNext)

\* The non-empty sets of ARNs a desired list can name.
DesiredSets ==
  {Arns(get_target_groups_for_node(raw)) : raw \in CompleteConfigs} \ {{}}

\* Nothing fails and the desired list of the node names the groups of want.
Calm(want) ==
  /\ ~fetch.failed
  /\ exit \notin {"no_nodes", "nodes_failed", "raised"}
  /\ \A k \in DOMAIN outcome : outcome[k] \in {"pending", "reconciled"}
  /\ Returned =>
       (target_groups # <<>> /\ Arns(target_groups) = want /\ AllOk(calls))

\* C19: each call reads the membership again, so a desired group the node is
\* not a member of gets a register call and a group found registered and not
\* desired gets a deregister call, whatever earlier calls did; and if from
\* some point on nothing fails and the desired list keeps naming the same
\* groups, then from some point on the node is a member of exactly those.
C19_Convergence ==
  /\ []((Returned /\ target_groups # <<>> /\ ~ListingFailed) =>
          /\ \A arn \in Arns(target_groups) :
               arn \notin before => Attempted("register_targets", arn)
          /\ \A arn \in Groups :
               (ReportedMember(arn) /\ arn \notin Arns(target_groups)) =>
                 Attempted("deregister_targets", arn))
  /\ \A want \in DesiredSets :
       <>[]Calm(want) => <>[](member[InstanceIds[1]] = want)

C19_Witness ==
  /\ Returned /\ AllOk(calls) /\ target_groups # <<>>
  /\ hist[CallInstance] = NoHist
  /\ before # Arns(target_groups)
  /\ member[CallInstance] = Arns(target_groups)
  /\ \E i \in CallsOf("deregister_targets"), j \in CallsOf("register_targets") : i < j

\* C21: no call of register_instance_to_target_groups raises to main():
\* every node handed to it gets a result, so no node's iteration ends in the
\* except clause around the call.
C21_ReconcileNeverRaises ==
  \A k \in DOMAIN outcome : outcome[k] # "reconcile_raised"

\* The last fetch was of the inventory and it failed or brought no node.
InventoryFailed == fetch.url = "nodes" /\ (fetch.failed \/ nodes = <<>>)

\* C22: when the inventory fetch fails or brings no node, the cycle never
\* enters the loop over the nodes, so it fetches no configuration and calls
\* the provider for nothing; main() returns without raising and leaves the
\* loop sleeping, no membership changes, and the next cycle starts.
C22_EmptyCycleOnInventoryFailure ==
  /\ [](InventoryFailed =>
          /\ pc \in {"idle", "start"}
          /\ outcome = <<>>
          /\ calls = <<>>
          /\ (pc = "idle" =>
                sched = "sleeping" /\ exit \in {"nodes_failed", "no_nodes"}))
  /\ [][(fetch'.url = "nodes" /\ (fetch'.failed \/ nodes' = <<>>)) =>
          member' = member]_vars
  /\ ((InventoryFailed /\ pc = "idle") ~> (sched = "running" /\ pc = "start"))

C22_Witness ==
  /\ InventoryFailed /\ fetch.failed
  /\ sched = "sleeping" /\ exit = "nodes_failed"
  /\ \E i \in Instances : hist[i].ok

\* C23: a call whose listing does not fail fetches every page and asks for
\* the target health of every group of every page; a group the snapshot
\* finds the node registered in, on whichever page it is listed, is put in
\* already_registered and, when it is not desired, gets a deregister call
\* (with an empty desired list it is put in deregistered).
C23_PaginationExhausted ==
  Returned =>
    /\ ~ListingFailed =>
         /\ Cardinality(CallsOf("describe_target_groups")) = Len(Pages)
         /\ \A arn \in Groups : Attempted("describe_target_health", arn)
    /\ \A arn \in Groups :
         ReportedMember(arn) =>
           IF target_groups = <<>>
           THEN InSeq(arn, results.deregistered)
           ELSE /\ InSeq(arn, results.already_registered)
                /\ (~ListingFailed /\ arn \notin Arns(target_groups)) =>
                     Attempted("deregister_targets", arn)

C23_Witness ==
  LET last == Pages[Len(Pages)][1]
  IN  /\ Returned /\ target_groups # <<>>
      /\ before = {last}
      /\ InSeq(last, results.already_registered)
      /\ Made("deregister_targets", last, TRUE)
      /\ member[CallInstance] = Arns(target_groups)

====
